---- MODULE Spec2Model ----
(***************************************************************************)
(* Model of source_harvest/streams.py: the Harvest stream layer            *)
(* (HarvestStream, IncrementalHarvestStream, HarvestSubStream,             *)
(* ReportsBase) and the read loops that drive it.                          *)
(*                                                                         *)
(* Encoding of Python values.  A mapping (dict) is a TLA+ function whose   *)
(* domain is its set of keys.  Scalars are integers: None is -1, and 0     *)
(* stands for the falsy scalars (0 and the empty string, which is also     *)
(* the least string); cursor values 1, 2, ... stand for ISO timestamps in  *)
(* their lexicographic order.  A mapping argument that is None (no slice,  *)
(* no page token) is the distinguished mapping NoneMap.                    *)
(***************************************************************************)
EXTENDS Integers, Sequences, FiniteSets, TLC

VARIABLES
    \* --- incremental state folding (SpecState) ---
    initial_state,   \* the stream state the run started from
    state,           \* the running stream state
    history,         \* cursor values of the records merged so far, in order
    \* --- direct calls of the stream methods (SpecCalls) ---
    now,             \* the wall-clock date, pendulum.now()
    from_cfg,        \* the from_date handed to ReportsBase.__init__ (NoDate: none)
    from_date,       \* ReportsBase._from_date
    created,         \* the date at which the stream was constructed
    start_date,      \* IncrementalHarvestStream._replication_start_date
    call,            \* the last call made: its operation, arguments and result
    \* --- a sync of a child stream (SpecSync) ---
    stream,          \* the child stream being read
    parent_recs,     \* the parent records the server holds, in server order
    server_page,     \* how many records the server puts on one page
    pc,              \* where the read is
    parent_token,    \* next_page_token of the parent read_records loop
    parent_buf,      \* parent records parsed from the current page, not yet yielded
    slices,          \* the slices stream_slices has yielded so far
    child_token,     \* next_page_token of the child read_records loop
    child_buf,       \* child records parsed from the current page, not yet emitted
    child_state,     \* the child stream's state
    slice_state,     \* the state the current slice's read_records was called with
    last_next_page,  \* the next_page field of the last response (None: missing or null)
    runs,            \* how many syncs of the child stream have been started
    log              \* every request of the current sync, in order

stateVars == <<initial_state, state, history>>
callVars == <<now, from_cfg, from_date, created, start_date, call>>
syncVars == <<stream, parent_recs, server_page, pc, parent_token,
              parent_buf, slices, child_token, child_buf, child_state, slice_state,
              last_next_page, runs, log>>
vars == <<stateVars, callVars, syncVars>>

---------------------------------------------------------------------------
\* Bounds of the model.
MaxCursor == 3
MaxRecords == 4
MaxPage == 3
MaxList == 2
MaxServerPage == 2
MaxChildPages == 2
MaxRuns == 2

---------------------------------------------------------------------------
\* Python values.

None == -1

NoneMap == [None |-> None]

EmptyMap == <<>>

\* bool(v) of a scalar: None, 0 and "" are falsy
Truthy(v) == v # None /\ v # 0

\* bool(m) of an Optional[Mapping]: None and {} are falsy
TruthyMap(m) == m # NoneMap /\ DOMAIN m # {}

\* m.get(k)
Get(m, k) == IF k \in DOMAIN m THEN m[k] ELSE None

\* m.get(k, default)
GetOr(m, k, default) == IF k \in DOMAIN m THEN m[k] ELSE default

\* m.update(other), returning the updated mapping
Update(m, other) ==
    [k \in DOMAIN m \cup DOMAIN other |-> IF k \in DOMAIN other THEN other[k] ELSE m[k]]

\* max(a, b)
Max(a, b) == IF a >= b THEN a ELSE b

\* max of a non-empty finite set of integers
MaxOf(S) == CHOOSE x \in S : \A y \in S : y <= x

Last(s) == s[Len(s)]

Range(s) == {s[i] : i \in DOMAIN s}

---------------------------------------------------------------------------
\* IncrementalHarvestStream

cursor_field == "updated_at"

\* get_updated_state with the comparison dropped: the last record wins
get_updated_state_last(current_stream_state, latest_record) ==
    [updated_at |-> latest_record[cursor_field]]

\* get_updated_state with the comparison inverted
get_updated_state_min(current_stream_state, latest_record) ==
    LET latest_benchmark == latest_record[cursor_field]
    IN  IF Truthy(Get(current_stream_state, cursor_field))
        THEN [updated_at |-> IF latest_benchmark <= current_stream_state[cursor_field]
                             THEN latest_benchmark
                             ELSE current_stream_state[cursor_field]]
        ELSE [updated_at |-> latest_benchmark]

get_updated_state(current_stream_state, latest_record) ==
    LET latest_benchmark == latest_record[cursor_field]
    IN  IF Truthy(Get(current_stream_state, cursor_field))
        THEN [updated_at |-> Max(latest_benchmark, current_stream_state[cursor_field])]
        ELSE [updated_at |-> latest_benchmark]

---------------------------------------------------------------------------
\* SpecState: get_updated_state folded over the records of a run, one at a time.

CursorValues == 0..MaxCursor

\* A stream state: empty, or holding a cursor value (possibly null).
States == {EmptyMap} \cup {[updated_at |-> v] : v \in CursorValues \cup {None}}

StateInit ==
    /\ initial_state \in States
    /\ state = initial_state
    /\ history = <<>>

\* One record is emitted and merged into the state.
MergeRecord ==
    /\ Len(history) < MaxRecords
    /\ \E v \in CursorValues :
          /\ state' = get_updated_state(state, [id |-> 1, updated_at |-> v])
          /\ history' = Append(history, v)
    /\ UNCHANGED <<initial_state, callVars, syncVars>>

---------------------------------------------------------------------------
\* JSON bodies.  A dict is a mapping; a list is the mapping JList(s); null
\* where a dict or list may stand is NoneMap.

JList(s) == [list |-> s]

\* isinstance(x, list)
IsList(x) == DOMAIN x = {"list"}

IsDict(x) == ~IsList(x) /\ x # NoneMap

---------------------------------------------------------------------------
\* Dates (pendulum.date) are records [y, m, d].

Years == 2024..2025

Months == {2, 3}

Days == {28, 29}

IsLeap(y) == (y % 4 = 0 /\ y % 100 # 0) \/ y % 400 = 0

DaysIn(y, m) ==
    IF m = 2 THEN (IF IsLeap(y) THEN 29 ELSE 28)
    ELSE IF m \in {4, 6, 9, 11} THEN 30 ELSE 31

Dates == {dt \in [y : Years, m : Months, d : Days] : dt.d <= DaysIn(dt.y, dt.m)}

NoDate == [y |-> None, m |-> None, d |-> None]

\* a < b on dates
DateBefore(a, b) ==
    \/ a.y < b.y
    \/ a.y = b.y /\ a.m < b.m
    \/ a.y = b.y /\ a.m = b.m /\ a.d < b.d

\* date.subtract(years=1): the same month and day a year earlier, the day
\* clamped to the month's length
SubtractYear(dt) ==
    [y |-> dt.y - 1, m |-> dt.m,
     d |-> IF dt.d > DaysIn(dt.y - 1, dt.m) THEN DaysIn(dt.y - 1, dt.m) ELSE dt.d]

\* date.strftime("%Y%m%d"), read as a number of 8 digits
Strftime(dt) == dt.y * 10000 + dt.m * 100 + dt.d

---------------------------------------------------------------------------
\* The stream catalog: one entry per kind of stream.  data_field "" is a
\* data_field of None; path_template is the template cut at its placeholder.

Company ==
    [name |-> "company", kind |-> "base", data_field |-> "",
     path_template |-> <<>>, parent_stream |-> "", report_path |-> ""]

Invoices ==
    [name |-> "invoices", kind |-> "incremental", data_field |-> "invoices",
     path_template |-> <<>>, parent_stream |-> "", report_path |-> ""]

Users ==
    [name |-> "users", kind |-> "incremental", data_field |-> "users",
     path_template |-> <<>>, parent_stream |-> "", report_path |-> ""]

InvoiceMessages ==
    [name |-> "invoice_messages", kind |-> "child_incremental",
     data_field |-> "invoice_messages",
     path_template |-> <<"invoices/", "{parent_id}", "/messages">>,
     parent_stream |-> "invoices", report_path |-> ""]

BillableRates ==
    [name |-> "billable_rates", kind |-> "child", data_field |-> "billable_rates",
     path_template |-> <<"users/", "{parent_id}", "/billable_rates">>,
     parent_stream |-> "users", report_path |-> ""]

ExpensesClients ==
    [name |-> "expenses_clients", kind |-> "report", data_field |-> "results",
     path_template |-> <<>>, parent_stream |-> "", report_path |-> "expenses/clients"]

Catalog == {Company, Invoices, Users, InvoiceMessages, BillableRates, ExpensesClients}

StreamNamed(n) == CHOOSE c \in Catalog : c.name = n

\* A stream instance: the catalog entry and what __init__ stored.
Instance(entry, replication_start_date, from_dt) ==
    [_replication_start_date |-> replication_start_date, _from_date |-> from_dt] @@ entry

---------------------------------------------------------------------------
\* HarvestStream

per_page == 50

\* HttpStream.request_params: the transport's base params
HttpStream_request_params(self, stream_state, stream_slice, next_page_token) == EmptyMap

\* next_page_token testing for presence (is not None) instead of truth
next_page_token_present(stream_data) ==
    IF Get(stream_data, "next_page") # None
    THEN [page |-> stream_data["next_page"]]
    ELSE NoneMap

next_page_token(stream_data) ==
    IF Truthy(Get(stream_data, "next_page"))
    THEN [page |-> stream_data["next_page"]]
    ELSE NoneMap

\* HarvestStream.request_params with the page token merged before per_page
\* is set to a page-dependent value
HarvestStream_request_params_nopage(self, stream_state, stream_slice, next_page_token_) ==
    Update(HttpStream_request_params(self, stream_state, stream_slice, next_page_token_),
           [per_page |-> per_page])

HarvestStream_request_params(self, stream_state, stream_slice, next_page_token_) ==
    LET params0 == HttpStream_request_params(self, stream_state, stream_slice, next_page_token_)
        params1 == Update(params0, [per_page |-> per_page])
    IN  IF TruthyMap(next_page_token_) THEN Update(params1, next_page_token_) ELSE params1

\* parse_response without the list case: the data is always yielded whole
parse_response_single(self, body) ==
    IF self.data_field # "" /\ ~IsDict(body)
    THEN [ok |-> FALSE, error |-> "AttributeError", records |-> <<>>]
    ELSE [ok |-> TRUE, error |-> "",
          records |-> <<IF self.data_field # ""
                        THEN GetOr(body, self.data_field, JList(<<>>))
                        ELSE body>>]

\* parse_response: the records yielded, in order, or the error raised
parse_response(self, body) ==
    IF self.data_field # "" /\ ~IsDict(body)
    THEN [ok |-> FALSE, error |-> "AttributeError", records |-> <<>>]
    ELSE LET stream_data == IF self.data_field # ""
                            THEN GetOr(body, self.data_field, JList(<<>>))
                            ELSE body
         IN  IF IsList(stream_data)
             THEN [ok |-> TRUE, error |-> "", records |-> stream_data.list]
             ELSE [ok |-> TRUE, error |-> "", records |-> <<stream_data>>]

---------------------------------------------------------------------------
\* IncrementalHarvestStream.request_params

\* b or a: the operands of "or" exchanged
Or_swapped(a, b) == IF Truthy(b) THEN b ELSE a

Incremental(self) == self.kind \in {"incremental", "child_incremental"}

\* a or b
Or(a, b) == IF Truthy(a) THEN a ELSE b

IncrementalHarvestStream_request_params(self, stream_state, stream_slice, next_page_token_) ==
    LET params == HarvestStream_request_params(self, stream_state, stream_slice, next_page_token_)
        replication_start_date ==
            Or(Get(stream_state, cursor_field), self._replication_start_date)
    IN  Update(params, [updated_since |-> replication_start_date])

---------------------------------------------------------------------------
\* HarvestSubStream

\* str.format(parent_id=value) on a template cut at its placeholder
RECURSIVE Format(_, _)
Format(template, parent_id) ==
    IF template = <<>> THEN ""
    ELSE (IF Head(template) = "{parent_id}" THEN ToString(parent_id) ELSE Head(template))
         \o Format(Tail(template), parent_id)

\* HarvestSubStream.path formatting the template with the slice itself
HarvestSubStream_path_raw(self, stream_slice) ==
    IF stream_slice = NoneMap
    THEN [ok |-> FALSE, error |-> "TypeError", path |-> ""]
    ELSE IF "parent_id" \notin DOMAIN stream_slice
    THEN [ok |-> FALSE, error |-> "KeyError", path |-> ""]
    ELSE [ok |-> TRUE, error |-> "", path |-> Format(self.path_template, stream_slice)]

\* HarvestSubStream.path: the path, or the error raised
HarvestSubStream_path(self, stream_slice) ==
    IF stream_slice = NoneMap
    THEN [ok |-> FALSE, error |-> "TypeError", path |-> ""]
    ELSE IF "parent_id" \notin DOMAIN stream_slice
    THEN [ok |-> FALSE, error |-> "KeyError", path |-> ""]
    ELSE [ok |-> TRUE, error |-> "",
          path |-> Format(self.path_template, stream_slice["parent_id"])]

\* the slice made of the id that follows the record's
SliceOf_next(item) == [parent_id |-> item["id"] + 10]

\* the slice stream_slices yields for one parent record
SliceOf(item) == [parent_id |-> item["id"]]

---------------------------------------------------------------------------
\* ReportsBase

\* ReportsBase.__init__: from_date or pendulum.now().date().subtract(years=1)
ReportsBase_init(from_dt) == IF from_dt # NoDate THEN from_dt ELSE SubtractYear(now)

\* ReportsBase.request_params with "to" fixed at construction time
ReportsBase_request_params_stale(self, stream_state, stream_slice, next_page_token_) ==
    LET params == HarvestStream_request_params(self, stream_state, stream_slice, next_page_token_)
    IN  Update(params, [from |-> Strftime(self._from_date), to |-> Strftime(created)])

ReportsBase_request_params(self, stream_state, stream_slice, next_page_token_) ==
    LET params == HarvestStream_request_params(self, stream_state, stream_slice, next_page_token_)
        current_date == now
    IN  Update(params, [from |-> Strftime(self._from_date), to |-> Strftime(current_date)])

ReportsBase_path(self) == "reports/" \o self.report_path

---------------------------------------------------------------------------
\* Method resolution: the method each kind of stream inherits.

request_params(self, stream_state, stream_slice, next_page_token_) ==
    CASE self.kind \in {"incremental", "child_incremental"} ->
            IncrementalHarvestStream_request_params(self, stream_state, stream_slice, next_page_token_)
      [] self.kind = "report" ->
            ReportsBase_request_params(self, stream_state, stream_slice, next_page_token_)
      [] OTHER ->
            HarvestStream_request_params(self, stream_state, stream_slice, next_page_token_)

path(self, stream_slice) ==
    CASE self.kind \in {"child", "child_incremental"} -> HarvestSubStream_path(self, stream_slice)
      [] self.kind = "report" -> [ok |-> TRUE, error |-> "", path |-> ReportsBase_path(self)]
      [] OTHER -> [ok |-> TRUE, error |-> "", path |-> self.name]

---------------------------------------------------------------------------
\* Idle values of the variables a specification does not use.

NoCall == [op |-> "none"]

StateIdle ==
    /\ initial_state = EmptyMap
    /\ state = EmptyMap
    /\ history = <<>>

CallIdle ==
    /\ now = NoDate
    /\ from_cfg = NoDate
    /\ from_date = NoDate
    /\ created = NoDate
    /\ start_date = None
    /\ call = NoCall

SyncIdle ==
    /\ stream = Company
    /\ parent_recs = <<>>
    /\ server_page = 0
    /\ pc = "idle"
    /\ parent_token = NoneMap
    /\ parent_buf = <<>>
    /\ slices = <<>>
    /\ child_token = NoneMap
    /\ child_buf = <<>>
    /\ child_state = EmptyMap
    /\ slice_state = EmptyMap
    /\ last_next_page = None
    /\ runs = 0
    /\ log = <<>>

---------------------------------------------------------------------------
\* SpecState

StateSpecInit == StateInit /\ CallIdle /\ SyncIdle

StateNext == MergeRecord

SpecState == StateSpecInit /\ [][StateNext]_vars

\* the cursor values the fold has seen: the records' and the initial state's
SeenValues ==
    Range(history) \cup
    (IF Get(initial_state, cursor_field) # None THEN {initial_state[cursor_field]} ELSE {})

\* C1: after every prefix of the records, the state's cursor value is the
\* maximum of the cursor values merged so far and of the initial state's
\* cursor value when it has one.
C1_FoldIsMax ==
    history # <<>> =>
        /\ DOMAIN state = {cursor_field}
        /\ state[cursor_field] = MaxOf(SeenValues)

\* an unsorted run from a state holding a value: the last record is below
\* the running maximum and the records went down and up again
C1_Witness ==
    /\ Len(history) >= 3
    /\ Get(initial_state, cursor_field) # None
    /\ history[1] > history[2]
    /\ history[2] < history[3]
    /\ Last(history) < state[cursor_field]

\* C2: a merge never lowers the cursor value of a state that holds one.
C2_Monotone ==
    [][Get(state, cursor_field) # None =>
          Get(state', cursor_field) >= Get(state, cursor_field)]_vars

\* a record below the stored cursor value has been merged
C2_Witness ==
    /\ history # <<>>
    /\ Get(initial_state, cursor_field) # None
    /\ Last(history) < initial_state[cursor_field]
    /\ state[cursor_field] >= initial_state[cursor_field]

---------------------------------------------------------------------------
\* SpecCalls: the stream methods called directly, on instances constructed
\* at the start, while the clock advances.

StartDates == {None} \cup 1..MaxCursor

ParentIds == {10, 20, 30}

Records == {[id |-> i] : i \in 1..2}

RecordLists == UNION {[1..n -> Records] : n \in 0..MaxList}

SliceArgs == {NoneMap, EmptyMap, [other |-> 1]} \cup {[parent_id |-> i] : i \in ParentIds}

TokenArgs == {NoneMap, EmptyMap} \cup {[page |-> n] : n \in 2..MaxPage}

\* the values a body may hold under a data field
DataValues == {JList(l) : l \in RecordLists} \cup Records \cup {NoneMap}

\* the response bodies tried on a stream whose data field is df
Bodies(df) ==
    LET k == IF df = "" THEN "data" ELSE df
    IN  {k :> v : v \in DataValues}
        \cup {(k :> v) @@ [next_page |-> 2] : v \in DataValues}
        \cup {EmptyMap, [next_page |-> None], [other |-> JList(<<[id |-> 1]>>)]}
        \cup Records
        \cup {JList(l) : l \in RecordLists}

\* the date the direct calls are made on
Today == [y |-> 2025, m |-> 2, d |-> 28]

CallInit ==
    /\ now = Today
    /\ created = now
    /\ from_cfg = NoDate
    /\ from_date = ReportsBase_init(from_cfg)
    /\ start_date \in StartDates
    /\ call = NoCall

CallRequestParams ==
    /\ call = NoCall
    /\ \E entry \in Catalog, st \in States, tok \in TokenArgs,
          sl \in {NoneMap, [parent_id |-> 20]} :
          LET self == Instance(entry, start_date, from_date)
          IN  call' = [op |-> "request_params", self |-> self, stream_state |-> st,
                       stream_slice |-> sl, next_page_token |-> tok, now |-> now,
                       result |-> request_params(self, st, sl, tok)]
    /\ UNCHANGED <<now, from_cfg, from_date, created, start_date, stateVars, syncVars>>

CallPath ==
    /\ call = NoCall
    /\ \E entry \in Catalog, sl \in SliceArgs :
          LET self == Instance(entry, start_date, from_date)
          IN  call' = [op |-> "path", self |-> self, stream_slice |-> sl,
                       result |-> path(self, sl)]
    /\ UNCHANGED <<now, from_cfg, from_date, created, start_date, stateVars, syncVars>>

CallParseResponse ==
    /\ call = NoCall
    /\ \E entry \in Catalog :
          \E body \in Bodies(entry.data_field) :
             LET self == Instance(entry, start_date, from_date)
             IN  call' = [op |-> "parse_response", self |-> self, body |-> body,
                          result |-> parse_response(self, body)]
    /\ UNCHANGED <<now, from_cfg, from_date, created, start_date, stateVars, syncVars>>

CallSpecInit == StateIdle /\ CallInit /\ SyncIdle

CallNext ==
    \/ CallRequestParams
    \/ CallPath
    \/ CallParseResponse

SpecCalls == CallSpecInit /\ [][CallNext]_vars

---------------------------------------------------------------------------
\* SpecReport: a report stream constructed with or without a from_date, its
\* request_params called again and again while the clock advances.

ReportInit ==
    /\ now \in Dates
    /\ created = now
    /\ from_cfg \in Dates \cup {NoDate}
    /\ from_date = ReportsBase_init(from_cfg)
    /\ start_date = None
    /\ call = NoCall

\* the clock moves on to a later date
Tick ==
    /\ \E dt \in Dates : DateBefore(now, dt) /\ now' = dt
    /\ UNCHANGED <<from_cfg, from_date, created, start_date, call, stateVars, syncVars>>

ReportRequestParams ==
    /\ \E tok \in TokenArgs :
          LET self == Instance(ExpensesClients, start_date, from_date)
          IN  call' = [op |-> "request_params", self |-> self, stream_state |-> EmptyMap,
                       stream_slice |-> NoneMap, next_page_token |-> tok, now |-> now,
                       result |-> request_params(self, EmptyMap, NoneMap, tok)]
    /\ UNCHANGED <<now, from_cfg, from_date, created, start_date, stateVars, syncVars>>

ReportSpecInit == StateIdle /\ ReportInit /\ SyncIdle

ReportNext ==
    \/ Tick
    \/ ReportRequestParams

SpecReport == ReportSpecInit /\ [][ReportNext]_vars

---------------------------------------------------------------------------
\* SpecSync: syncs of a child stream.  The framework asks stream_slices for
\* the next slice and reads the child's pages for it before asking for the
\* next one; stream_slices pulls parent records from the parent's
\* read_records, which fetches a page when the records of the page before
\* are used up.

ChildStreams == {InvoiceMessages, BillableRates}

\* the cursor values of the child records the server returns
ChildCursors == 1..2

ParentRecord(i) == [id |-> i, updated_at |-> i \div 10]

\* the sequences of distinct parent records
ParentLists ==
    {l \in UNION {[1..n -> {ParentRecord(i) : i \in ParentIds}] : n \in 0..Cardinality(ParentIds)} :
        \A i, j \in DOMAIN l : i # j => l[i] # l[j]}

\* the server's answer to a request for the parent's records: the page
\* asked for, of the records updated since the date asked for
ParentServer(name, params) ==
    LET since == Get(params, "updated_since")
        recs == SelectSeq(parent_recs, LAMBDA r : since = None \/ r.updated_at >= since)
        page == GetOr(params, "page", 1)
        first == (page - 1) * server_page + 1
        last_ == IF page * server_page < Len(recs) THEN page * server_page ELSE Len(recs)
    IN  (name :> JList(SubSeq(recs, first, last_)))
        @@ [next_page |-> IF page * server_page < Len(recs) THEN page + 1 ELSE None]

\* the answers the server may give to a request for a page of child records
ChildBodies(name, params) ==
    LET page == GetOr(params, "page", 1)
        lists == {<<>>} \cup {<<[id |-> 1, updated_at |-> c]>> : c \in ChildCursors}
        nexts == {None, 0} \cup (IF page < MaxChildPages THEN {page + 1} ELSE {})
    IN  {(name :> JList(l)) @@ [next_page |-> n] : l \in lists, n \in nexts}

\* the state the parent is read with: read_records is called without one
ParentReadState_child == child_state

ParentReadState == EmptyMap

\* the parent instance stream_slices constructs: the authenticator only
ParentInstance == Instance(StreamNamed(stream.parent_stream), None, NoDate)

ChildInstance == Instance(stream, start_date, NoDate)

SyncInit ==
    /\ stream \in ChildStreams
    /\ parent_recs \in ParentLists
    /\ server_page \in 1..MaxServerPage
    /\ pc = "start"
    /\ parent_token = NoneMap
    /\ parent_buf = <<>>
    /\ slices = <<>>
    /\ child_token = NoneMap
    /\ child_buf = <<>>
    /\ child_state = EmptyMap
    /\ slice_state = EmptyMap
    /\ last_next_page = None
    /\ runs = 1
    /\ log = <<>>

syncFrame == <<stream, parent_recs, server_page, stateVars, callVars>>

childFrame == <<child_state, slice_state>>

\* stream_slices is called: the parent is constructed and its read begins
StreamSlices ==
    /\ pc = "start"
    /\ parent_token' = NoneMap
    /\ parent_buf' = <<>>
    /\ slices' = <<>>
    /\ pc' = "parent_fetch"
    /\ UNCHANGED <<child_token, child_buf, childFrame, last_next_page, runs, log, syncFrame>>

\* the parent's read_records fetches a page
ParentFetch ==
    /\ pc = "parent_fetch"
    /\ LET self == ParentInstance
           params == request_params(self, ParentReadState, NoneMap, parent_token)
           body == ParentServer(self.name, params)
           parsed == parse_response(self, body)
           token == next_page_token(body)
       IN  /\ parent_buf' = parsed.records
           /\ parent_token' = token
           /\ last_next_page' = Get(body, "next_page")
           /\ log' = Append(log, [stream |-> "parent", path |-> path(self, NoneMap).path,
                                   slice_no |-> 0, page |-> Get(params, "page"),
                                   since |-> Get(params, "updated_since"),
                                   ids |-> {r.id : r \in Range(parsed.records)},
                                   token |-> token])
    /\ pc' = "yield"
    /\ UNCHANGED <<slices, child_token, child_buf, childFrame, runs, syncFrame>>

\* stream_slices yields the slice of the next parent record, and the
\* framework begins the child's read_records for it
YieldSlice ==
    /\ pc = "yield"
    /\ parent_buf # <<>>
    /\ slices' = Append(slices, SliceOf(Head(parent_buf)))
    /\ parent_buf' = Tail(parent_buf)
    /\ child_token' = NoneMap
    /\ child_buf' = <<>>
    /\ slice_state' = child_state
    /\ pc' = "child_fetch"
    /\ UNCHANGED <<parent_token, child_state, last_next_page, runs, log, syncFrame>>

\* the records of the parent's page are used up and it has a next page
ParentNextPage ==
    /\ pc = "yield"
    /\ parent_buf = <<>>
    /\ TruthyMap(parent_token)
    /\ pc' = "parent_fetch"
    /\ UNCHANGED <<parent_token, parent_buf, slices, child_token, child_buf, childFrame,
                   last_next_page, runs, log, syncFrame>>

\* the parent has no next page: stream_slices is exhausted, the sync ends
SlicesDone ==
    /\ pc = "yield"
    /\ parent_buf = <<>>
    /\ ~TruthyMap(parent_token)
    /\ pc' = "done"
    /\ UNCHANGED <<parent_token, parent_buf, slices, child_token, child_buf, childFrame,
                   last_next_page, runs, log, syncFrame>>

\* the child's read_records fetches a page of the current slice
ChildFetch ==
    /\ pc = "child_fetch"
    /\ LET self == ChildInstance
           slice == Last(slices)
           where == path(self, slice)
           params == request_params(self, slice_state, slice, child_token)
       IN  \E body \in ChildBodies(self.name, params) :
              LET parsed == parse_response(self, body)
                  token == next_page_token(body)
              IN  /\ child_buf' = parsed.records
                  /\ child_token' = token
                  /\ last_next_page' = Get(body, "next_page")
                  /\ log' = Append(log, [stream |-> "child", path |-> where.path,
                                          slice_no |-> Len(slices), page |-> Get(params, "page"),
                                          since |-> Get(params, "updated_since"),
                                          ids |-> {slice["parent_id"]},
                                          token |-> token])
    /\ pc' = "child_emit"
    /\ UNCHANGED <<parent_token, parent_buf, slices, childFrame, runs, syncFrame>>

\* the framework emits a child record and, for an incremental stream,
\* merges it into the state
EmitRecord ==
    /\ pc = "child_emit"
    /\ child_buf # <<>>
    /\ child_state' = IF Incremental(stream)
                       THEN get_updated_state(child_state, Head(child_buf))
                       ELSE child_state
    /\ child_buf' = Tail(child_buf)
    /\ UNCHANGED <<pc, parent_token, parent_buf, slices, child_token, slice_state,
                   last_next_page, runs, log, syncFrame>>

\* the records of the child's page are used up and it has a next page
ChildNextPage ==
    /\ pc = "child_emit"
    /\ child_buf = <<>>
    /\ TruthyMap(child_token)
    /\ pc' = "child_fetch"
    /\ UNCHANGED <<parent_token, parent_buf, slices, child_token, child_buf, childFrame,
                   last_next_page, runs, log, syncFrame>>

\* the child has no next page for this slice: the framework asks
\* stream_slices for the next slice
ChildDone ==
    /\ pc = "child_emit"
    /\ child_buf = <<>>
    /\ ~TruthyMap(child_token)
    /\ pc' = "yield"
    /\ UNCHANGED <<parent_token, parent_buf, slices, child_token, child_buf, childFrame,
                   last_next_page, runs, log, syncFrame>>

\* the next sync of the stream starts from the state the last one left
NextSync ==
    /\ pc = "done"
    /\ runs < MaxRuns
    /\ runs' = runs + 1
    /\ log' = <<>>
    /\ pc' = "start"
    /\ UNCHANGED <<parent_token, parent_buf, slices, child_token, child_buf, childFrame,
                   last_next_page, syncFrame>>

SyncSpecInit == StateIdle /\ CallIdle /\ SyncInit

SyncNext ==
    \/ StreamSlices
    \/ ParentFetch
    \/ YieldSlice
    \/ ParentNextPage
    \/ SlicesDone
    \/ ChildFetch
    \/ EmitRecord
    \/ ChildNextPage
    \/ ChildDone
    \/ NextSync

SpecSync == SyncSpecInit /\ [][SyncNext]_vars

---------------------------------------------------------------------------
\* Claims on the sync of a child stream (SpecSync).

ParentFetches == {i \in DOMAIN log : log[i].stream = "parent"}

ChildFetches == {i \in DOMAIN log : log[i].stream = "child"}

\* the number of pages the server cuts the parent's records into
ParentPages ==
    IF parent_recs = <<>> THEN 1
    ELSE (Len(parent_recs) + server_page - 1) \div server_page

Loop(i) == {j \in DOMAIN log : log[j].stream = log[i].stream /\ log[j].slice_no = log[i].slice_no}

\* C4: next_page_token returns {page: next_page} for a response that carries
\* a (truthy) next_page and None for one that does not; a read_records loop
\* asks for the page of each token returned and stops at the first response
\* without one, so that the parent's pages are fetched once each, in order.
C4_PaginationStops ==
    /\ log # <<>> =>
          Last(log).token = IF last_next_page \notin {None, 0}
                            THEN [page |-> last_next_page]
                            ELSE NoneMap
    /\ \A i \in DOMAIN log :
          LET later == {j \in Loop(i) : j > i}
          IN  IF log[i].token = NoneMap
              THEN later = {}
              ELSE /\ later # {} => log[CHOOSE j \in later : \A k \in later : j <= k].page
                                       = log[i].token["page"]
                   /\ later = {} => /\ i = Len(log)
                                     /\ pc \in {"yield", "parent_fetch", "child_emit", "child_fetch"}
                                     /\ pc \in {"yield", "parent_fetch"} => log[i].stream = "parent"
    /\ \A i \in DOMAIN log : Cardinality({j \in Loop(i) : log[j].page = log[i].page}) = 1
    /\ pc = "done" =>
          /\ Cardinality(ParentFetches) = ParentPages
          /\ {log[i].page : i \in ParentFetches} = {None} \cup 2..ParentPages

\* a sync has ended whose parent took two pages and one of whose slices
\* took two pages, the last response carrying next_page 0
C4_Witness ==
    /\ pc = "done"
    /\ Cardinality(ParentFetches) = 2
    /\ \E i \in ChildFetches : log[i].page = 2
    /\ last_next_page = 0

\* C6: stream_slices yields one slice {parent_id: id} per parent record, in
\* the parent's order: the slices yielded so far are those of the first
\* parent records, and all of them when the sync ends; every invocation
\* reads the parent from its first page, with no state.
C6_SlicesFollowParent ==
    /\ Len(slices) <= Len(parent_recs)
    /\ \A i \in DOMAIN slices : slices[i] = [parent_id |-> parent_recs[i].id]
    /\ pc = "done" => Len(slices) = Len(parent_recs)
    /\ ParentFetches # {} =>
          LET first == CHOOSE i \in ParentFetches : \A j \in ParentFetches : i <= j
          IN  log[first].page = None
    /\ \A i \in ParentFetches : log[i].since = None

\* the second sync of an incremental child, begun from the state the first
\* left, has ended with the slices of parents 10, 20, 30
C6_Witness ==
    /\ pc = "done"
    /\ runs = 2
    /\ child_state # EmptyMap
    /\ slices = <<[parent_id |-> 10], [parent_id |-> 20], [parent_id |-> 30]>>

---------------------------------------------------------------------------
\* Claims on the direct calls (SpecCalls).

IsRequestParams == call.op = "request_params"

\* C8: request_params always returns per_page = 50; it returns page = n for a
\* page token {page: n} and no page key without a page token; updated_since
\* (incremental streams) and from / to (report streams) stand beside them
\* with their own values, and no other key is returned.
C8_ParamsMerge ==
    IsRequestParams =>
        LET r == call.result
            tok == call.next_page_token
            extra == IF Incremental(call.self) THEN {"updated_since"}
                     ELSE IF call.self.kind = "report" THEN {"from", "to"}
                     ELSE {}
        IN  /\ "per_page" \in DOMAIN r
            /\ r["per_page"] = 50
            /\ "page" \in DOMAIN tok => "page" \in DOMAIN r /\ r["page"] = tok["page"]
            /\ "page" \notin DOMAIN tok => "page" \notin DOMAIN r
            /\ DOMAIN r = {"per_page"} \cup extra \cup (DOMAIN tok \cap {"page"})
            /\ Incremental(call.self) =>
                  r["updated_since"] \in {Get(call.stream_state, cursor_field), start_date}
            /\ call.self.kind = "report" =>
                  r["from"] = Strftime(from_date) /\ r["to"] = Strftime(call.now)

\* a report stream and a stream both child and incremental have been asked
\* for the params of page 3
C8_Witness ==
    /\ IsRequestParams
    /\ call.self.kind \in {"report", "child_incremental"}
    /\ call.next_page_token = [page |-> 3]
    /\ call.result["page"] = 3
    /\ call.result["per_page"] = 50

\* C9 as stated: updated_since is the state's cursor value whenever the state
\* holds one, and the replication start date only when it holds none.
C9_AsStated ==
    IsRequestParams /\ Incremental(call.self) =>
        call.result["updated_since"] =
            IF Get(call.stream_state, cursor_field) # None
            THEN call.stream_state[cursor_field]
            ELSE start_date

\* C9: updated_since is the state's cursor value whenever that value is
\* truthy, and the replication start date (possibly None) when the state
\* holds no value or a falsy one (null, the empty string, 0); the slice and
\* the page token do not matter.
C9_UpdatedSince ==
    IsRequestParams /\ Incremental(call.self) =>
        call.result["updated_since"] =
            IF Get(call.stream_state, cursor_field) \notin {None, 0}
            THEN call.stream_state[cursor_field]
            ELSE start_date

\* a child and incremental stream, called with a slice and a page token, a
\* state value and a different start date, took the state's value
C9_Witness ==
    /\ IsRequestParams
    /\ call.self.kind = "child_incremental"
    /\ call.stream_slice = [parent_id |-> 20]
    /\ call.next_page_token = [page |-> 2]
    /\ Get(call.stream_state, cursor_field) = 2
    /\ start_date = 1
    /\ call.result["updated_since"] = 2

ChildPathCall == call.op = "path" /\ call.self.kind \in {"child", "child_incremental"}

\* the template of a child stream with the placeholder replaced by the id
Expected(self, id) ==
    IF self.name = "billable_rates"
    THEN "users/" \o ToString(id) \o "/billable_rates"
    ELSE "invoices/" \o ToString(id) \o "/messages"

\* C10 as stated: the path is the template with the parent id filled in, and
\* a slice without parent_id, or no slice at all, fails with a missing-key
\* error.
C10_AsStated ==
    ChildPathCall =>
        IF call.stream_slice # NoneMap /\ "parent_id" \in DOMAIN call.stream_slice
        THEN /\ call.result.ok
             /\ call.result.path = Expected(call.self, call.stream_slice["parent_id"])
        ELSE ~call.result.ok /\ call.result.error = "KeyError"

\* C10: the path is the template with the parent id filled in; a slice that
\* is a mapping without parent_id fails with a missing-key error, no slice
\* at all fails with a type error, and neither returns a path.
C10_Path ==
    ChildPathCall =>
        IF call.stream_slice = NoneMap
        THEN ~call.result.ok /\ call.result.error = "TypeError" /\ call.result.path = ""
        ELSE IF "parent_id" \notin DOMAIN call.stream_slice
        THEN ~call.result.ok /\ call.result.error = "KeyError" /\ call.result.path = ""
        ELSE /\ call.result.ok
             /\ call.result.path = Expected(call.self, call.stream_slice["parent_id"])

\* billable rates asked for the path of parent 20
C10_Witness ==
    /\ ChildPathCall
    /\ call.self.name = "billable_rates"
    /\ call.stream_slice = [parent_id |-> 20]
    /\ call.result.path = "users/20/billable_rates"

---------------------------------------------------------------------------
\* Claims on the report stream (SpecReport).

\* C5 as stated: every call returns from <= to.
C5_AsStated ==
    IsRequestParams => call.result["from"] <= call.result["to"]

\* the 8 digits of the day one year before dt
YearBefore(dt) ==
    IF dt.m = 2 /\ dt.d = 29 /\ ~IsLeap(dt.y - 1)
    THEN (dt.y - 1) * 10000 + 228
    ELSE Strftime(dt) - 10000

\* C5: every call returns from and to, where from is the configured
\* from_date, or by default the day one year before construction, and to is
\* the date of the call; from <= to whenever the configured from_date is not
\* later than the date of the call, and always with the default.
C5_DateWindow ==
    IsRequestParams =>
        LET r == call.result
        IN  /\ {"from", "to"} \subseteq DOMAIN r
            /\ r["to"] = Strftime(call.now)
            /\ r["from"] = IF from_cfg # NoDate THEN Strftime(from_cfg) ELSE YearBefore(created)
            /\ (from_cfg = NoDate \/ ~DateBefore(call.now, from_cfg)) => r["from"] <= r["to"]

\* a stream constructed on 29 February without a from_date has been called
\* on a later day
C5_Witness ==
    /\ IsRequestParams
    /\ from_cfg = NoDate
    /\ created.d = 29 /\ created.m = 2
    /\ DateBefore(created, call.now)
    /\ call.result["from"] < call.result["to"]

====
